---- MODULE Spec2Model ----
(***************************************************************************)
(* cudlb::rb_tree (device_rb_tree.h) as a state machine.                   *)
(*                                                                         *)
(* Memory is a set of node addresses 0..MaxNodes.  Address 0 is nullptr:   *)
(* rb_tree_impl sets root, begin and end to nullptr and nothing ever       *)
(* changes impl.end, so every "x != impl.end" test is a test against 0 and *)
(* every field access through a nil link is an access through nullptr.     *)
(* Such an access is undefined behaviour.  Two outcomes are modelled: the  *)
(* device faults (the call never returns), or address 0 behaves like       *)
(* node-shaped memory whose initial contents are arbitrary.  A call whose  *)
(* loop repeats a state never returns either ("hang").  After a fault or a *)
(* hang no further call is made and the heap shown is the one the call     *)
(* started from.                                                           *)
(*                                                                         *)
(* it is the node held by the iterator or node pointer the last iterator,  *)
(* find, min or max call returned; freed lists the addresses the           *)
(* destructor passed to destroy and deallocate.  vec is a device_vector    *)
(* (device_vector.h), whose elements are also the range the algorithms of  *)
(* device_algorithm.h are applied to.                                      *)
(***************************************************************************)
EXTENDS Integers, Sequences, FiniteSets, TLC

MaxNodes == 3
MaxKey == 3

NIL == 0
Nodes == 1..MaxNodes
Addr == 0..MaxNodes
Keys == 1..MaxKey
Colour == {"black", "red"}

VARIABLES heap, live, allocated, status, last, it, freed, vec

vars == <<heap, live, allocated, status, last, it, freed, vec>>

(* vector_impl(): begin, end and space are nullptr; elems are the values of *)
(* the constructed elements [begin, end)                                   *)
vector_impl == [begin |-> 0, end |-> 0, space |-> 0, elems |-> <<>>]

(* cudlb::less with <= written for < *)
less_or_equal(lhs, rhs) == lhs <= rhs

(* cudlb::less *)
less(lhs, rhs) == lhs < rhs

(***************************************************************************)
(* Field accesses.  nilacc records that some field was read or written     *)
(* through nullptr during the current call.                                *)
(***************************************************************************)
Touch(h, S) == [h EXCEPT !.nilacc = @ \/ (NIL \in S)]

SetColour(h, a, c) == [h EXCEPT !.colour[a] = c, !.nilacc = @ \/ (a = NIL)]
SetParent(h, a, v) == [h EXCEPT !.parent[a] = v, !.nilacc = @ \/ (a = NIL)]
SetLeft(h, a, v) == [h EXCEPT !.left[a] = v, !.nilacc = @ \/ (a = NIL)]
SetRight(h, a, v) == [h EXCEPT !.right[a] = v, !.nilacc = @ \/ (a = NIL)]

Child(h, side, a) == IF side = "left" THEN h.left[a] ELSE h.right[a]

(* The part of a heap that decides how a loop continues. *)
Core(h) == [h EXCEPT !.nilacc = FALSE]

(* rb_tree_node(value const&): null links, black *)
construct(h, z, k) ==
    [h EXCEPT !.val[z] = k, !.parent[z] = NIL, !.left[z] = NIL,
              !.right[z] = NIL, !.colour[z] = "black"]

(***************************************************************************)
(* Each function of the tree is the composition of its statements, one     *)
(* operator per statement (or run of statements) that reads the heap the   *)
(* statements before it have written.                                      *)
(***************************************************************************)

(* left_rotate, line 319: x->right = y->left *)
left_rotate_1(h, x, y) == SetRight(Touch(h, {y}), x, h.left[y])

(* left_rotate, lines 320-323 *)
left_rotate_2(h, x, y) == IF h.left[y] # NIL THEN SetParent(h, h.left[y], x) ELSE h

(* left_rotate, line 324: y->parent = x->parent *)
left_rotate_3(h, x, y) == SetParent(h, y, h.parent[x])

(* left_rotate, lines 325-337 *)
left_rotate_4(h, x, y) ==
    IF h.parent[x] = NIL THEN [h EXCEPT !.root = y]
    ELSE IF x = h.left[h.parent[x]] THEN SetLeft(h, h.parent[x], y)
    ELSE SetRight(h, h.parent[x], y)

(* left_rotate, lines 338-339 *)
left_rotate_5(h, x, y) == SetParent(SetLeft(h, y, x), x, y)

(* rb_tree::left_rotate *)
left_rotate(h, x) ==
    IF h.right[x] = NIL THEN Touch(h, {x})
    ELSE left_rotate_5(
           left_rotate_4(
             left_rotate_3(
               left_rotate_2(
                 left_rotate_1(Touch(h, {x}), x, h.right[x]),
                 x, h.right[x]),
               x, h.right[x]),
             x, h.right[x]),
           x, h.right[x])

(* right_rotate, line 349: y->left = x->right *)
right_rotate_1(h, y, x) == SetLeft(Touch(h, {x}), y, h.right[x])

(* right_rotate, lines 350-353 *)
right_rotate_2(h, y, x) == IF h.right[x] # NIL THEN SetParent(h, h.right[x], y) ELSE h

(* right_rotate, line 354: x->parent = y->parent *)
right_rotate_3(h, y, x) == SetParent(h, x, h.parent[y])

(* right_rotate, lines 355-366; the root test compares y itself with impl.end *)
right_rotate_4(h, y, x) ==
    IF y = NIL THEN [h EXCEPT !.root = x]
    ELSE IF y = h.left[h.parent[y]] THEN SetLeft(h, h.parent[y], x)
    ELSE SetRight(h, h.parent[y], x)

(* right_rotate, lines 367-368 *)
right_rotate_5(h, y, x) == SetParent(SetRight(h, x, y), y, x)

(* rb_tree::right_rotate *)
right_rotate(h, y) ==
    IF h.left[y] = NIL THEN Touch(h, {y})
    ELSE right_rotate_5(
           right_rotate_4(
             right_rotate_3(
               right_rotate_2(
                 right_rotate_1(Touch(h, {y}), y, h.left[y]),
                 y, h.left[y]),
               y, h.left[y]),
             y, h.left[y]),
           y, h.left[y])

(***************************************************************************)
(* The body of the insert_fixup loop.  far is the side of the uncle:       *)
(* "right" for lines 271-289 (parent is a left child), "left" for lines    *)
(* 290-308.  Both branches call left_rotate(z) and                         *)
(* right_rotate(z->parent->parent), and in both the three statements after *)
(* the if / else-if run whichever case was taken.                          *)
(***************************************************************************)

(* lines 276-279 / 295-298: uncle y is red *)
insert_fixup_recolour(h, z, y) ==
    [h |-> SetColour(SetColour(SetColour(h, h.parent[z], "black"), y, "black"),
                     h.parent[h.parent[z]], "red"),
     z |-> h.parent[h.parent[z]]]

(* lines 273-285 / 292-304: the if / else-if on the uncle y *)
insert_fixup_cases(h, z, far, y) ==
    IF h.colour[y] = "red" THEN insert_fixup_recolour(h, z, y)
    ELSE IF z = Child(h, far, h.parent[z])
         THEN [h |-> left_rotate(h, h.parent[z]), z |-> h.parent[z]]
         ELSE [h |-> h, z |-> z]

(* lines 286-287 / 305-306 *)
insert_fixup_tail_colours(h, z) ==
    SetColour(SetColour(Touch(h, {z, h.parent[z]}), h.parent[z], "black"),
              h.parent[h.parent[z]], "red")

(* lines 286-288 / 305-307 *)
insert_fixup_tail(r) ==
    [h |-> right_rotate(insert_fixup_tail_colours(r.h, r.z), r.h.parent[r.h.parent[r.z]]),
     z |-> r.z]

insert_fixup_branch(h, z, far) ==
    insert_fixup_tail(
        insert_fixup_cases(
            Touch(h, {z, h.parent[z], h.parent[h.parent[z]],
                      Child(h, far, h.parent[h.parent[z]])}),
            z, far, Child(h, far, h.parent[h.parent[z]])))

(* line 271: which branch of the loop body runs *)
insert_fixup_body(h, z) ==
    IF h.parent[z] = h.left[h.parent[h.parent[z]]]
    THEN insert_fixup_branch(Touch(h, {h.parent[z], h.parent[h.parent[z]]}), z, "right")
    ELSE insert_fixup_branch(Touch(h, {h.parent[z], h.parent[h.parent[z]]}), z, "left")

(* the while loop of insert_fixup, line 269; a repeated loop state never ends *)
RECURSIVE insert_fixup_loop(_, _, _), insert_fixup_next(_, _)
insert_fixup_loop(h, z, seen) ==
    IF h.colour[h.parent[z]] # "red" THEN Touch(h, {z, h.parent[z]})
    ELSE IF <<Core(h), z>> \in seen THEN [h EXCEPT !.hang = TRUE]
    ELSE insert_fixup_next(insert_fixup_body(Touch(h, {z, h.parent[z]}), z),
                           seen \cup {<<Core(h), z>>})

insert_fixup_next(r, seen) == insert_fixup_loop(r.h, r.z, seen)

(* insert_fixup, line 310 *)
insert_fixup_root(h) == IF h.hang THEN h ELSE SetColour(h, h.root, "black")

(* rb_tree::insert_fixup *)
insert_fixup(h, z) == insert_fixup_root(insert_fixup_loop(h, z, {}))

(* the descent loop of rb_tree::insert, lines 110-121; the heap does not   *)
(* change in it, so a node visited twice is visited for ever               *)
RECURSIVE insert_descend(_, _, _, _, _)
insert_descend(h, z, x, y, seen) ==
    IF x = NIL THEN [y |-> y, hang |-> FALSE]
    ELSE IF x \in seen THEN [y |-> y, hang |-> TRUE]
    ELSE insert_descend(h, z,
                        IF less(h.val[z], h.val[x]) THEN h.left[x] ELSE h.right[x],
                        x, seen \cup {x})

(* insert, lines 122-134 *)
insert_link(h, z, y) ==
    IF y = NIL THEN [SetParent(h, z, y) EXCEPT !.root = z]
    ELSE IF less(h.val[z], h.val[y]) THEN SetLeft(SetParent(h, z, y), y, z)
    ELSE SetRight(SetParent(h, z, y), y, z)

(* insert, lines 135-137 *)
insert_leaf(h, z) == SetColour(SetRight(SetLeft(h, z, NIL), z, NIL), z, "red")

(* insert, lines 122-138 *)
insert_at(h, z, d) ==
    IF d.hang THEN [h EXCEPT !.hang = TRUE]
    ELSE insert_fixup(insert_leaf(insert_link(h, z, d.y), z), z)

(* rb_tree::insert *)
insert(h, z) == insert_at(h, z, insert_descend(h, z, h.root, NIL, {}))

(* rb_tree_node::min; "while (nd->left)" compares with nullptr *)
RECURSIVE min(_, _, _)
min(h, nd, seen) ==
    IF h.left[nd] = NIL THEN [nd |-> nd, hang |-> FALSE]
    ELSE IF nd \in seen THEN [nd |-> nd, hang |-> TRUE]
    ELSE min(h, h.left[nd], seen \cup {nd})

(* transplant, lines 186-197 *)
transplant_1(h, x, y) ==
    IF h.parent[x] = NIL THEN [h EXCEPT !.root = y]
    ELSE IF x = h.left[h.parent[x]] THEN SetLeft(h, h.parent[x], y)
    ELSE SetRight(h, h.parent[x], y)

(* transplant, line 198: y->parent = x->parent *)
transplant_2(h, x, y) == SetParent(Touch(h, {x}), y, h.parent[x])

(* rb_tree::transplant *)
transplant(h, x, y) == transplant_2(transplant_1(h, x, y), x, y)

(***************************************************************************)
(* The body of the remove_fixup loop.  (near, far) is ("left","right") for *)
(* lines 206-233 (cursor is a left child) and ("right","left") for lines   *)
(* 234-261.  Both branches call left_rotate(x->parent) and right_rotate(y),*)
(* and in both the five statements after the if / else-if run whichever    *)
(* case was taken.  A stage is a record of the heap h, the cursor x and    *)
(* the sibling y.                                                          *)
(***************************************************************************)

(* lines 211-212 / 239-240 *)
remove_fixup_red_colours(h, x, y) ==
    SetColour(SetColour(h, y, "black"), h.parent[x], "red")

(* line 213 / 241 *)
remove_fixup_red_rotate(h, x) == left_rotate(h, h.parent[x])

(* line 214 / 242: y = x->parent->far *)
remove_fixup_sibling(h, x, far) ==
    [h |-> Touch(h, {x, h.parent[x]}), x |-> x, y |-> Child(h, far, h.parent[x])]

(* lines 208-215 / 236-243 *)
remove_fixup_red(h, x, far, y) ==
    IF h.colour[y] = "red"
    THEN remove_fixup_sibling(
             remove_fixup_red_rotate(remove_fixup_red_colours(h, x, y), x), x, far)
    ELSE [h |-> h, x |-> x, y |-> y]

(* lines 223-225 / 251-253 *)
remove_fixup_near(h, y, near) ==
    right_rotate(SetColour(SetColour(h, Child(h, near, y), "black"), y, "red"), y)

(* lines 216-227 / 244-255: the if / else-if on the sibling's children *)
remove_fixup_cases(s, near, far) ==
    IF /\ s.h.colour[Child(s.h, near, s.y)] = "black"
       /\ s.h.colour[Child(s.h, far, s.y)] = "black"
    THEN [h |-> SetColour(s.h, s.y, "red"), x |-> s.h.parent[s.x], y |-> s.y]
    ELSE IF s.h.colour[Child(s.h, far, s.y)] = "black"
         THEN remove_fixup_sibling(remove_fixup_near(s.h, s.y, near), s.x, far)
         ELSE s

(* the fields read by the tests of lines 216 and 221 / 244 and 249 *)
remove_fixup_touch(s, near, far) ==
    [s EXCEPT !.h = Touch(s.h, {s.y, Child(s.h, near, s.y), Child(s.h, far, s.y)})]

(* line 228 / 256: y->colour = x->parent->colour *)
remove_fixup_tail_1(h, x, y) ==
    SetColour(Touch(h, {x, h.parent[x]}), y, h.colour[h.parent[x]])

(* line 229 / 257: x->parent->colour = black *)
remove_fixup_tail_2(h, x) == SetColour(h, h.parent[x], "black")

(* line 230 / 258: y->far->colour = black *)
remove_fixup_tail_3(h, y, far) == SetColour(Touch(h, {y}), Child(h, far, y), "black")

(* line 231 / 259: left_rotate(x->parent) *)
remove_fixup_tail_4(h, x) == left_rotate(h, h.parent[x])

(* lines 228-232 / 256-260 *)
remove_fixup_tail(s, far) ==
    remove_fixup_tail_4(
        remove_fixup_tail_3(
            remove_fixup_tail_2(remove_fixup_tail_1(s.h, s.x, s.y), s.x),
            s.y, far),
        s.x)

(* line 232 / 260: x = impl.root *)
remove_fixup_restart(h) == [h |-> h, x |-> h.root]

remove_fixup_branch(h, x, near, far) ==
    remove_fixup_restart(
        remove_fixup_tail(
            remove_fixup_cases(
                remove_fixup_touch(
                    remove_fixup_red(
                        Touch(h, {x, h.parent[x], Child(h, far, h.parent[x])}),
                        x, far, Child(h, far, h.parent[x])),
                    near, far),
                near, far),
            far))

(* line 206: which branch of the loop body runs *)
remove_fixup_body(h, x) ==
    IF x = h.left[h.parent[x]]
    THEN remove_fixup_branch(Touch(h, {h.parent[x]}), x, "left", "right")
    ELSE remove_fixup_branch(Touch(h, {h.parent[x]}), x, "right", "left")

(* the while loop of remove_fixup, line 204: the test compares the cursor  *)
(* with impl.end; a repeated loop state never ends                         *)
RECURSIVE remove_fixup_loop(_, _, _), remove_fixup_next(_, _)
remove_fixup_loop(h, x, seen) ==
    IF x = NIL \/ h.colour[x] # "black" THEN [h |-> h, x |-> x]
    ELSE IF <<Core(h), x>> \in seen THEN [h |-> [h EXCEPT !.hang = TRUE], x |-> x]
    ELSE remove_fixup_next(remove_fixup_body(h, x), seen \cup {<<Core(h), x>>})

remove_fixup_next(r, seen) == remove_fixup_loop(r.h, r.x, seen)

(* remove_fixup, line 263: x->colour = black *)
remove_fixup_end(r) == IF r.h.hang THEN r.h ELSE SetColour(r.h, r.x, "black")

(* rb_tree::remove_fixup *)
remove_fixup(h, x) == remove_fixup_end(remove_fixup_loop(h, x, {}))

(* remove, lines 168-170 *)
remove_detach_1(h, y) == transplant(h, y, h.right[y])
remove_detach_2(h, z, y) == SetRight(h, y, h.right[z])
remove_detach_3(h, y) == SetParent(h, h.right[y], y)

(* remove, lines 162-171 *)
remove_detach(h, z, y) ==
    IF h.parent[y] = z THEN SetParent(h, h.right[y], y)
    ELSE remove_detach_3(remove_detach_2(remove_detach_1(h, y), z, y), y)

(* remove, lines 173-175 *)
remove_attach_1(h, z, y) == SetLeft(h, y, h.left[z])
remove_attach_2(h, y) == SetParent(h, h.left[y], y)
(* remove, line 175, copying z's key into y along with z's colour *)
remove_attach_3_key(h, z, y) == [SetColour(h, y, h.colour[z]) EXCEPT !.val[y] = h.val[z]]
(* remove, line 175: y->colour = z->colour *)
remove_attach_3(h, z, y) == SetColour(h, y, h.colour[z])

(* remove, lines 159-175: z has two children, m is the result of min *)
remove_splice(h, z, m) ==
    IF m.hang THEN [h |-> [h EXCEPT !.hang = TRUE], x |-> NIL, y_temp |-> "red"]
    ELSE [h |-> remove_attach_3(
                    remove_attach_2(
                        remove_attach_1(
                            transplant(remove_detach(h, z, m.nd), z, m.nd),
                            z, m.nd),
                        m.nd),
                    z, m.nd),
          x |-> h.right[m.nd],
          y_temp |-> h.colour[m.nd]]

(* remove, lines 144-176 *)
remove_unlink(h, z) ==
    IF h.left[z] = NIL
    THEN [h |-> transplant(h, z, h.right[z]), x |-> h.right[z], y_temp |-> h.colour[z]]
    ELSE IF h.right[z] = NIL
    THEN [h |-> transplant(h, z, h.left[z]), x |-> h.left[z], y_temp |-> h.colour[z]]
    ELSE remove_splice(h, z, min(h, h.right[z], {}))

(* remove, lines 177-180 *)
remove_finish(r) ==
    IF r.h.hang \/ r.y_temp # "black" THEN r.h ELSE remove_fixup(r.h, r.x)

(* rb_tree::remove *)
remove(h, z) == remove_finish(remove_unlink(h, z))

(***************************************************************************)
(* Observations of a heap: what a traversal from impl.root sees.  A simple *)
(* path holds at most MaxNodes nodes, so a node at depth MaxNodes + 1      *)
(* lies on a cycle.                                                        *)
(***************************************************************************)
Depth == MaxNodes + 1

RECURSIVE InOrder(_, _, _)
InOrder(h, n, d) ==
    IF n = NIL \/ d = 0 THEN <<>>
    ELSE InOrder(h, h.left[n], d - 1) \o <<n>> \o InOrder(h, h.right[n], d - 1)

RECURSIVE Finite(_, _, _)
Finite(h, n, d) ==
    IF n = NIL THEN TRUE
    ELSE IF d = 0 THEN FALSE
    ELSE Finite(h, h.left[n], d - 1) /\ Finite(h, h.right[n], d - 1)

Range(s) == {s[i] : i \in 1..Len(s)}

TreeNodes(h) == InOrder(h, h.root, Depth)
TreeKeys(h) == [i \in 1..Len(TreeNodes(h)) |-> h.val[TreeNodes(h)[i]]]
Reach(h) == Range(TreeNodes(h))
IsTree(h) == Finite(h, h.root, Depth) /\ Len(TreeNodes(h)) = Cardinality(Reach(h))

WithoutNode(s, z) == SelectSeq(s, LAMBDA n : n # z)
KeysOf(h, s) == [i \in 1..Len(s) |-> h.val[s[i]]]

(* the results the build can produce for a call that computed r *)
Outcomes(r) ==
    (IF r.hang THEN {"hang"} ELSE {"ok"}) \cup (IF r.nilacc THEN {"fault"} ELSE {})

NoCall == [op |-> "none", z |-> NIL, before |-> <<>>, expect |-> <<>>,
           rt |-> FALSE, pre |-> <<>>]

EmptyHeap(c, p, l, r) ==
    [val |-> [a \in Addr |-> 0],
     colour |-> [a \in Addr |-> IF a = NIL THEN c ELSE "black"],
     parent |-> [a \in Addr |-> IF a = NIL THEN p ELSE NIL],
     left |-> [a \in Addr |-> IF a = NIL THEN l ELSE NIL],
     right |-> [a \in Addr |-> IF a = NIL THEN r ELSE NIL],
     root |-> NIL, begin |-> NIL, end |-> NIL, nilacc |-> FALSE, hang |-> FALSE]

(* rb_tree() *)
InitDefault ==
    /\ \E c \in Colour, p \in Addr, l \in Addr, r \in Addr : heap = EmptyHeap(c, p, l, r)
    /\ live = {}
    /\ allocated = 0

(* rb_tree(value const&) *)
InitValue ==
    /\ \E c \in Colour, p \in Addr, l \in Addr, r \in Addr, k \in Keys :
          heap = [construct(EmptyHeap(c, p, l, r), 1, k) EXCEPT !.root = 1, !.begin = 1]
    /\ live = {1}
    /\ allocated = 1

Init ==
    /\ InitDefault \/ InitValue
    /\ status = "ok"
    /\ last = NoCall
    /\ it = NIL
    /\ freed = <<>>
    /\ vec = vector_impl

(***************************************************************************)
(* The caller allocates a node, constructs it with key k and calls         *)
(* insert(z).  The allocator hands out fresh addresses in increasing order.*)
(***************************************************************************)
Insert(k) ==
    /\ status = "ok"
    /\ allocated < MaxNodes
    /\ LET z == allocated + 1
           r == insert(construct(Core(heap), z, k), z) IN
       \E o \in Outcomes(r) :
          /\ status' = o
          /\ allocated' = IF o = "ok" THEN z ELSE allocated
          /\ UNCHANGED <<it, freed, vec>>
          /\ heap' = IF o = "ok" THEN r ELSE heap
          /\ live' = IF o = "ok" THEN live \cup {z} ELSE live
          /\ last' = IF o = "ok"
                     THEN [op |-> "insert", z |-> z, before |-> TreeKeys(heap),
                           expect |-> <<>>, rt |-> FALSE, pre |-> <<>>]
                     ELSE last

(* the caller calls remove(z) on a node it inserted and has not removed *)
Remove(z) ==
    /\ status = "ok"
    /\ z \in live
    /\ LET r == remove(Core(heap), z) IN
       \E o \in Outcomes(r) :
          /\ status' = o
          /\ UNCHANGED <<allocated, it, freed, vec>>
          /\ heap' = IF o = "ok" THEN r ELSE heap
          /\ live' = IF o = "ok" THEN live \ {z} ELSE live
          /\ last' = IF o = "ok"
                     THEN [op |-> "remove", z |-> z, before |-> TreeKeys(heap),
                           expect |-> KeysOf(heap, WithoutNode(TreeNodes(heap), z)),
                           rt |-> last.op = "insert" /\ last.z = z,
                           pre |-> IF last.op = "insert" /\ last.z = z
                                   THEN last.before ELSE <<>>]
                     ELSE last

Next ==
    \/ \E k \in Keys : Insert(k)
    \/ \E z \in Nodes : Remove(z)

Spec == Init /\ [][Next]_vars

(***************************************************************************)
(* Scenarios of the specification: a fixed sequence of inserts into a      *)
(* default-constructed tree.                                               *)
(***************************************************************************)
ScenarioA == <<10, 20, 30>>
ScenarioB == <<10, 5, 1>>

InitEmpty ==
    /\ InitDefault
    /\ status = "ok"
    /\ last = NoCall
    /\ it = NIL
    /\ freed = <<>>
    /\ vec = vector_impl

InsertA ==
    /\ allocated < Len(ScenarioA)
    /\ Insert(ScenarioA[allocated + 1])

InsertB ==
    /\ allocated < Len(ScenarioB)
    /\ Insert(ScenarioB[allocated + 1])

SpecA == InitEmpty /\ [][InsertA]_vars
SpecB == InitEmpty /\ [][InsertB]_vars

(***************************************************************************)
(* Red-black properties of the tree seen from impl.root.                   *)
(***************************************************************************)
RECURSIVE BlackCount(_, _, _)
(* number of black nodes on every path from n down to a nil link, or -1    *)
(* when two paths disagree or the path never ends                          *)
BlackCount(h, n, d) ==
    IF n = NIL THEN 0
    ELSE IF d = 0 THEN -1
    ELSE LET l == BlackCount(h, h.left[n], d - 1)
             r == BlackCount(h, h.right[n], d - 1)
         IN IF l = -1 \/ r = -1 \/ l # r THEN -1
            ELSE l + (IF h.colour[n] = "black" THEN 1 ELSE 0)

NonDecreasing(s) == \A i \in 1..(Len(s) - 1) : ~less(s[i + 1], s[i])
Increasing(s) == \A i \in 1..(Len(s) - 1) : less(s[i], s[i + 1])

(* C1: after any sequence of insert and remove calls every path from the   *)
(* root down to a nil link contains the same number of black nodes.        *)
C1_BlackHeight == BlackCount(heap, heap.root, Depth) # -1

(* C2: after any sequence of insert and remove calls no red node reachable *)
(* from the root has a red left or right child.                            *)
C2_NoRedRed ==
    \A n \in Reach(heap) :
       heap.colour[n] = "red" =>
          /\ heap.left[n] # NIL => heap.colour[heap.left[n]] # "red"
          /\ heap.right[n] # NIL => heap.colour[heap.right[n]] # "red"

(* C3: after every insert call and every remove call that leaves the tree  *)
(* non-empty, the node impl.root points to is black.                       *)
C3_RootBlack ==
    (last.op \in {"insert", "remove"} /\ heap.root # NIL) =>
       heap.colour[heap.root] = "black"

(* C4: after any inserts and removes the in-order traversal from impl.root *)
(* ends and yields keys in non-decreasing order.                           *)
C4_Ordered == IsTree(heap) /\ NonDecreasing(TreeKeys(heap))

(* C5 as stated: with cudlb::less the in-order traversal yields strictly   *)
(* increasing keys: no two nodes with equal keys are reachable from the    *)
(* root.                                                                   *)
C5_StrictlyIncreasing == Increasing(TreeKeys(heap))

(* the first insert into a tree constructed from one value, with that value *)
FirstInsertOfEqualKey ==
    /\ status = "ok"
    /\ heap.begin = 1
    /\ allocated = 2
    /\ live = {1, 2}
    /\ last.op = "insert"
    /\ heap.val[2] = heap.val[1]

(* C5 amended: insert does not reject a key that is already in the tree.   *)
(* Inserting a node whose key equals the key of a tree constructed from    *)
(* that one value makes it the red right child of the black root, so both  *)
(* equal keys are reachable and the traversal yields the key twice.        *)
C5_DuplicateKept ==
    FirstInsertOfEqualKey =>
       /\ heap.root = 1 /\ heap.colour[1] = "black"
       /\ heap.right[1] = 2 /\ heap.left[1] = NIL
       /\ heap.parent[2] = 1 /\ heap.colour[2] = "red"
       /\ TreeKeys(heap) = <<heap.val[1], heap.val[1]>>

C5_Witness ==
    FirstInsertOfEqualKey /\ TreeKeys(heap) = <<heap.val[1], heap.val[2]>>

(* C6: the number of nodes reachable from impl.root equals the number of   *)
(* inserts minus the number of removes.                                    *)
C6_Size == Len(TreeNodes(heap)) = Cardinality(live)

(* C7: remove(z) leaves the in-order key sequence equal to the previous    *)
(* sequence with exactly z's key deleted.                                  *)
C7_RemoveDeletesOnlyZ == last.op = "remove" => TreeKeys(heap) = last.expect

(* C8: inserting a node and immediately removing it gives back the         *)
(* in-order key sequence the tree had before the insert.                   *)
C8_RoundTrip == (last.op = "remove" /\ last.rt) => TreeKeys(heap) = last.pre

(* C9: after inserting 10, 20, 30 into an empty tree, 20 is the black      *)
(* root, 10 its red left child and 30 its red right child.                 *)
C9_ScenarioA ==
    (status = "ok" /\ allocated = 3) =>
       /\ heap.root = 2 /\ heap.colour[2] = "black"
       /\ heap.left[2] = 1 /\ heap.colour[1] = "red"
       /\ heap.right[2] = 3 /\ heap.colour[3] = "red"

(* C10: after inserting 10, 5, 1 into an empty tree, 5 is the black root,  *)
(* 1 its red left child and 10 its red right child.                        *)
C10_ScenarioB ==
    (status = "ok" /\ allocated = 3) =>
       /\ heap.root = 2 /\ heap.colour[2] = "black"
       /\ heap.left[2] = 3 /\ heap.colour[3] = "red"
       /\ heap.right[2] = 1 /\ heap.colour[1] = "red"

(* C11: impl.end is a real node and never nullptr: it is black after every *)
(* constructor, insert and remove, the root's parent is impl.end and the   *)
(* root of a tree that holds no node is impl.end.                          *)
C11_Sentinel ==
    /\ heap.end \in Nodes
    /\ heap.colour[heap.end] = "black"
    /\ heap.root # heap.end => heap.parent[heap.root] = heap.end
    /\ live = {} => heap.root = heap.end

(***************************************************************************)
(* iterator.  The caller positions an iterator at a node of the tree       *)
(* (iterator{node*} is public) and steps it; it holds the node the         *)
(* iterator wraps after the call.                                          *)
(***************************************************************************)
(* operator++, lines 434-438: nd = nd->right; while (nd->left) ...         *)
RECURSIVE increment_down(_, _, _)
increment_down(h, nd, seen) ==
    IF h.left[nd] = NIL THEN [nd |-> nd, hang |-> FALSE]
    ELSE IF nd \in seen THEN [nd |-> nd, hang |-> TRUE]
    ELSE increment_down(h, h.left[nd], seen \cup {nd})

(* operator++, lines 442-449: while (p && nd == p->right) ...; nd = p      *)
RECURSIVE increment_up(_, _, _, _)
increment_up(h, nd, p, seen) ==
    IF p = NIL \/ nd # h.right[p] THEN [nd |-> p, hang |-> FALSE]
    ELSE IF <<nd, p>> \in seen THEN [nd |-> p, hang |-> TRUE]
    ELSE increment_up(h, p, h.parent[p], seen \cup {<<nd, p>>})

(* iterator::operator++ *)
increment(h, nd) ==
    IF h.right[nd] # NIL THEN increment_down(h, h.right[nd], {})
    ELSE increment_up(h, nd, h.parent[nd], {})

(* iterator::operator--: the body is "return *this" *)
decrement(h, nd) == [nd |-> nd, hang |-> FALSE]

(* the result r of a call that does not change the tree *)
Observe(op, z, r) ==
    /\ status' = IF r.hang THEN "hang" ELSE "ok"
    /\ it' = IF r.hang THEN it ELSE r.nd
    /\ last' = IF r.hang THEN last ELSE [NoCall EXCEPT !.op = op, !.z = z]
    /\ UNCHANGED <<heap, live, allocated, freed, vec>>

Increment(n) ==
    /\ status = "ok"
    /\ n \in Reach(heap)
    /\ Observe("increment", n, increment(heap, n))

Decrement(n) ==
    /\ status = "ok"
    /\ n \in Reach(heap) \cup {heap.end}
    /\ Observe("decrement", n, decrement(heap, n))

(* find(key) as the specification describes it, the class has none: a     *)
(* descent from impl.root by the comparator that ends at the match or at   *)
(* impl.end                                                                *)
RECURSIVE find_descend(_, _, _, _)
find_descend(h, k, x, seen) ==
    IF x = h.end THEN [nd |-> h.end, hang |-> FALSE]
    ELSE IF x \in seen THEN [nd |-> x, hang |-> TRUE]
    ELSE IF less(k, h.val[x]) THEN find_descend(h, k, h.left[x], seen \cup {x})
    ELSE IF less(h.val[x], k) THEN find_descend(h, k, h.right[x], seen \cup {x})
    ELSE [nd |-> x, hang |-> FALSE]

find(h, k) == find_descend(h, k, h.root, {})

Find(k) ==
    /\ status = "ok"
    /\ Observe("find", k, find(heap, k))

(* rb_tree_node::max; "while (nd->right)" compares with nullptr *)
RECURSIVE max(_, _, _)
max(h, nd, seen) ==
    IF h.right[nd] = NIL THEN [nd |-> nd, hang |-> FALSE]
    ELSE IF nd \in seen THEN [nd |-> nd, hang |-> TRUE]
    ELSE max(h, h.right[nd], seen \cup {nd})

(* min and max applied to the root of a tree that has one *)
Minimum ==
    /\ status = "ok"
    /\ heap.root # heap.end
    /\ Observe("min", heap.root, min(heap, heap.root, {}))

Maximum ==
    /\ status = "ok"
    /\ heap.root # heap.end
    /\ Observe("max", heap.root, max(heap, heap.root, {}))

NextIter ==
    \/ Next
    \/ \E n \in Nodes : Increment(n)
    \/ \E n \in Addr : Decrement(n)
    \/ \E k \in Keys : Find(k)
    \/ Minimum
    \/ Maximum

SpecIter == Init /\ [][NextIter]_vars

(* the element that follows (dir = 1) or precedes (dir = -1) n in s, with  *)
(* e standing before the first and after the last element                  *)
Position(s, n) == IF n \in Range(s) THEN CHOOSE i \in 1..Len(s) : s[i] = n ELSE 0
Neighbour(s, n, dir, e) ==
    IF n = e THEN (IF s = <<>> THEN e ELSE IF dir = 1 THEN s[1] ELSE s[Len(s)])
    ELSE IF Position(s, n) + dir \in 1..Len(s) THEN s[Position(s, n) + dir]
    ELSE e

(* the nodes met by stepping an iterator from nd until it wraps impl.end   *)
RECURSIVE Visit(_, _, _)
Visit(h, nd, d) ==
    IF nd = h.end \/ d = 0 THEN <<>>
    ELSE IF increment(h, nd).hang THEN <<nd>>
    ELSE <<nd>> \o Visit(h, increment(h, nd).nd, d - 1)

(* C12: operator++ moves an iterator at a node of the tree to the node     *)
(* that follows it in the in-order sequence, and from the last node to the *)
(* iterator wrapping impl.end; stepping from the first node visits the     *)
(* in-order sequence.                                                      *)
C12_Increment ==
    /\ last.op = "increment" =>
          it = Neighbour(TreeNodes(heap), last.z, 1, heap.end)
    /\ (status = "ok" /\ heap.root # NIL /\ IsTree(heap)) =>
          Visit(heap, TreeNodes(heap)[1], Depth) = TreeNodes(heap)

(* C13: operator-- moves an iterator at a node other than the first to the *)
(* node that precedes it in the in-order sequence, and an iterator         *)
(* wrapping impl.end to the last node.                                     *)
C13_Decrement ==
    (/\ last.op = "decrement"
     /\ TreeNodes(heap) # <<>>
     /\ last.z # TreeNodes(heap)[1]) =>
       it = Neighbour(TreeNodes(heap), last.z, -1, heap.end)

(***************************************************************************)
(* left_rotate and right_rotate are public members: the caller rotates a   *)
(* tree built by a constructor and inserts at a node whose right (left)    *)
(* child is a node.                                                        *)
(***************************************************************************)
Rotated(op, x, r) ==
    \E o \in Outcomes(r) :
       /\ status' = o
       /\ heap' = IF o = "ok" THEN r ELSE heap
       /\ last' = IF o = "ok"
                  THEN [NoCall EXCEPT !.op = op, !.z = x, !.before = TreeKeys(heap)]
                  ELSE last
       /\ UNCHANGED <<live, allocated, it, freed, vec>>

LeftRotate(x) ==
    /\ status = "ok"
    /\ x \in Reach(heap)
    /\ heap.right[x] # NIL
    /\ Rotated("left_rotate", x, left_rotate(Core(heap), x))

RightRotate(y) ==
    /\ status = "ok"
    /\ y \in Reach(heap)
    /\ heap.left[y] # NIL
    /\ Rotated("right_rotate", y, right_rotate(Core(heap), y))

NextRotate ==
    \/ \E k \in Keys : Insert(k)
    \/ \E x \in Nodes : LeftRotate(x)
    \/ \E y \in Nodes : RightRotate(y)

SpecRotate == Init /\ [][NextRotate]_vars

(* C14: left_rotate(x) and right_rotate(x) at a node whose right (left)    *)
(* child is a node, the root included, leave the in-order key sequence     *)
(* traversed from impl.root unchanged.                                     *)
C14_RotateKeepsOrder ==
    last.op \in {"left_rotate", "right_rotate"} => TreeKeys(heap) = last.before

(* C15: after every call, every node reachable from impl.root is the       *)
(* parent of its left child and of its right child, and the root's parent  *)
(* is impl.end.                                                            *)
C15_LinksConsistent ==
    /\ \A n \in Reach(heap) :
          /\ heap.left[n] # heap.end => heap.parent[heap.left[n]] = n
          /\ heap.right[n] # heap.end => heap.parent[heap.right[n]] = n
    /\ heap.root # heap.end => heap.parent[heap.root] = heap.end

(***************************************************************************)
(* ~rb_tree.  delete_tree starts at impl.begin and steps the raw node      *)
(* pointer with ++x, so after the first node it visits whatever lies       *)
(* behind that node in memory: further nodes when the allocator laid them  *)
(* back to back (addresses are handed out in increasing order), up to some *)
(* address j, and then memory that is no node.  The walk cannot meet       *)
(* nullptr, so a call that enters the loop does not return.  freed lists   *)
(* the addresses passed to destroy and deallocate.                         *)
(***************************************************************************)
(* rb_tree::empty *)
empty(h) == h.begin = h.end

(* delete_tree, lines 402-408, leaving the nodes at address j *)
delete_tree_loop(h, j) == [i \in 1..(j - h.begin + 1) |-> h.begin + i - 1]

(* rb_tree::delete_tree *)
delete_tree(h, j) ==
    IF ~empty(h) THEN [freed |-> delete_tree_loop(h, j), fault |-> TRUE]
    ELSE [freed |-> <<>>, fault |-> FALSE]

Destroyed(r) ==
    /\ status' = IF r.fault THEN "fault" ELSE "destroyed"
    /\ freed' = r.freed
    /\ last' = [NoCall EXCEPT !.op = "delete_tree"]
    /\ UNCHANGED <<heap, live, allocated, it, vec>>

Teardown(j) ==
    /\ status = "ok"
    /\ j \in (IF empty(heap) THEN {NIL} ELSE heap.begin..allocated)
    /\ Destroyed(delete_tree(heap, j))

NextTeardown ==
    \/ Next
    \/ \E j \in Addr : Teardown(j)

SpecTeardown == Init /\ [][NextTeardown]_vars

(* C16: the destructor returns, and it has passed every node still in the  *)
(* tree to destroy and deallocate exactly once and no other address.       *)
C16_TeardownFreesLive ==
    last.op = "delete_tree" =>
       /\ status = "destroyed"
       /\ Range(freed) = live
       /\ Len(freed) = Cardinality(live)

(* C17: a remove(z) call that returns leaves the key stored in every node  *)
(* as it was before the call.                                              *)
C17_RemoveKeepsKeys ==
    [][\A z \in Nodes : Remove(z) => heap'.val = heap.val]_vars

(* a remove of a node with two children has returned and left other nodes  *)
(* in the tree                                                             *)
C17_Witness ==
    /\ status = "ok"
    /\ last.op = "remove"
    /\ heap.left[last.z] # NIL
    /\ heap.right[last.z] # NIL
    /\ Len(last.before) = 3
    /\ TreeNodes(heap) # <<>>

(***************************************************************************)
(* Erasing what is not there.  remove takes a node, so the caller who      *)
(* wants key k erased from a tree that does not hold k has a node of its   *)
(* own with that key: it constructs z with key k and calls remove(z).      *)
(***************************************************************************)
Absent(z, r) ==
    \E o \in Outcomes(r) :
       /\ status' = o
       /\ allocated' = IF o = "ok" THEN z ELSE allocated
       /\ heap' = IF o = "ok" THEN r ELSE heap
       /\ last' = IF o = "ok"
                  THEN [NoCall EXCEPT !.op = "remove_absent", !.z = z,
                                      !.before = TreeKeys(heap)]
                  ELSE last
       /\ UNCHANGED <<live, it, freed, vec>>

RemoveAbsent(k) ==
    /\ status = "ok"
    /\ allocated < MaxNodes
    /\ k \notin Range(TreeKeys(heap))
    /\ Absent(allocated + 1,
              remove(construct(Core(heap), allocated + 1, k), allocated + 1))

NextAbsent ==
    \/ Next
    \/ \E k \in Keys : RemoveAbsent(k)

SpecAbsent == Init /\ [][NextAbsent]_vars

(* C18: erasing from an empty tree, or erasing a key the tree does not     *)
(* hold, leaves impl.root and the links, colour and key of every node of  *)
(* the tree as they were.                                                  *)
C18_AbsentUnchanged ==
    [][\A k \in Keys : RemoveAbsent(k) =>
          /\ heap'.root = heap.root
          /\ \A n \in live :
                /\ heap'.parent[n] = heap.parent[n]
                /\ heap'.left[n] = heap.left[n]
                /\ heap'.right[n] = heap.right[n]
                /\ heap'.colour[n] = heap.colour[n]
                /\ heap'.val[n] = heap.val[n]]_vars

(* C19: find(k) returns an iterator to a node holding k exactly when a     *)
(* node with key k was inserted and not removed since, and the iterator    *)
(* wrapping impl.end otherwise.                                            *)
C19_Find ==
    last.op = "find" =>
       /\ it # heap.end <=> \E n \in live : heap.val[n] = last.z
       /\ it # heap.end => heap.val[it] = last.z

(* C20: min applied to the root returns the first node of the in-order     *)
(* sequence, which holds the smallest key, and max the last node, which    *)
(* holds the largest key; neither returns impl.end.                        *)
C20_MinMax ==
    /\ last.op = "min" =>
          /\ it # heap.end
          /\ it = TreeNodes(heap)[1]
          /\ \A n \in Reach(heap) : ~less(heap.val[n], heap.val[it])
    /\ last.op = "max" =>
          /\ it # heap.end
          /\ it = TreeNodes(heap)[Len(TreeNodes(heap))]
          /\ \A n \in Reach(heap) : ~less(heap.val[it], heap.val[n])

(***************************************************************************)
(* device_vector.  begin, end and space are addresses, 0 for nullptr;      *)
(* operator new returns the address Block.  The vector holds at most       *)
(* MaxLen elements, with values from Keys.                                 *)
(***************************************************************************)
MaxLen == 3
Block == 1

(* device_vector::size *)
vector_size(v) == v.end - v.begin

(* device_vector::capacity *)
capacity(v) == v.space - v.begin

(* device_vector::empty: "if (this->base.begin) return false; return true" *)
vector_empty(v) == IF v.begin # 0 THEN FALSE ELSE TRUE

(* vector_base(n): allocate_space(n) *)
allocate_space(n) ==
    [begin |-> Block, end |-> Block + n, space |-> Block + n, elems |-> <<>>]

(* device_vector::fill *)
fill(v, val) == [v EXCEPT !.elems = [i \in 1..(v.end - v.begin) |-> val]]

(* device_vector(n, val) *)
device_vector(n, val) == fill(allocate_space(n), val)

(* device_vector::reserve *)
reserve(v, n) ==
    IF capacity(v) < n
    THEN [begin |-> Block, end |-> Block + vector_size(v), space |-> Block + n,
          elems |-> v.elems]
    ELSE v

(* device_vector::expand *)
expand(v) == 1 + capacity(v) + capacity(v) \div 2

(* push_back, lines 293-294 *)
push_back_reserve(v) ==
    IF capacity(v) = 0 THEN reserve(v, 1)
    ELSE IF capacity(v) = vector_size(v) THEN reserve(v, expand(v))
    ELSE v

(* push_back, lines 295-296 *)
push_back_construct(v, val) == [v EXCEPT !.elems = Append(@, val), !.end = @ + 1]

(* device_vector::push_back *)
push_back(v, val) == push_back_construct(push_back_reserve(v), val)

(* device_vector::clear *)
clear(v) == [v EXCEPT !.elems = <<>>, !.end = v.begin]

(* device_vector::erase(pos), pos the index of an element: every element   *)
(* from pos on takes the value behind it, then the last one is destroyed   *)
erase(v, pos) ==
    [v EXCEPT !.elems = [i \in 1..(Len(@) - 1) |-> IF i < pos THEN @[i] ELSE @[i + 1]],
              !.end = @ - 1]

(* the constructors device_vector() and device_vector(n, val); no tree *)
InitVector ==
    /\ vec \in {vector_impl} \cup {device_vector(n, val) : n \in 0..(MaxLen - 1), val \in Keys}
    /\ heap = EmptyHeap("black", NIL, NIL, NIL)
    /\ live = {}
    /\ allocated = 0
    /\ status = "ok"
    /\ last = NoCall
    /\ it = NIL
    /\ freed = <<>>

PushBack(val) ==
    /\ status = "ok"
    /\ vector_size(vec) < MaxLen
    /\ vec' = push_back(vec, val)
    /\ last' = [NoCall EXCEPT !.op = "push_back"]
    /\ UNCHANGED <<heap, live, allocated, status, it, freed>>

(* erase's loop reads *(pos + 1) for pos = end() - 1, the slot behind the  *)
(* last element, which lies outside the allocation when size = capacity    *)
Erase(pos) ==
    /\ status = "ok"
    /\ pos \in 1..vector_size(vec)
    /\ \E o \in {"ok"} \cup (IF vector_size(vec) = capacity(vec) THEN {"fault"} ELSE {}) :
          /\ status' = o
          /\ vec' = IF o = "ok" THEN erase(vec, pos) ELSE vec
          /\ last' = IF o = "ok" THEN [NoCall EXCEPT !.op = "erase"] ELSE last
    /\ UNCHANGED <<heap, live, allocated, it, freed>>

Clear ==
    /\ status = "ok"
    /\ vec' = clear(vec)
    /\ last' = [NoCall EXCEPT !.op = "clear", !.before = vec.elems]
    /\ UNCHANGED <<heap, live, allocated, status, it, freed>>

NextVector ==
    \/ \E val \in Keys : PushBack(val)
    \/ \E pos \in 1..MaxLen : Erase(pos)
    \/ Clear

SpecVector == InitVector /\ [][NextVector]_vars

(* C21: device_vector::empty() returns true exactly when size() is 0, in   *)
(* every state the constructors, push_back, erase and clear reach.         *)
C21_VectorEmpty == vector_empty(vec) <=> vector_size(vec) = 0

(***************************************************************************)
(* cudlb::sort and cudlb::partition on the elements of the vector, called  *)
(* with the range [data(), data() + size()).  A range is an array a with a *)
(* first position f and the position l behind its last element.  The body  *)
(* of sort names its second parameter "last" where the parameter list      *)
(* calls it "second"; it is read with the parameter meant.                 *)
(***************************************************************************)
(* cudlb::iter_swap *)
iter_swap(a, i, j) == [a EXCEPT ![i] = a[j], ![j] = a[i]]

(* partition, line 148: while (i <= j && *i <= pivot) ++i *)
RECURSIVE partition_up(_, _, _, _)
partition_up(a, pivot, i, j) ==
    IF i <= j /\ a[i] <= pivot THEN partition_up(a, pivot, i + 1, j) ELSE i

(* partition, line 149: while (i <= j && *i > pivot) --j *)
RECURSIVE partition_down(_, _, _, _)
partition_down(a, pivot, i, j) ==
    IF i <= j /\ a[i] > pivot THEN partition_down(a, pivot, i, j - 1) ELSE j

(* partition, line 150: if (i < j) iter_swap(i, j) *)
partition_swap(a, i, j) == IF i < j THEN iter_swap(a, i, j) ELSE a

(* partition, lines 146-153 *)
RECURSIVE partition_loop(_, _, _, _, _)
partition_loop(a, f, pivot, i, j) ==
    IF i <= j
    THEN partition_loop(
           partition_swap(a, partition_up(a, pivot, i, j),
                          partition_down(a, pivot, partition_up(a, pivot, i, j), j)),
           f, pivot, partition_up(a, pivot, i, j),
           partition_down(a, pivot, partition_up(a, pivot, i, j), j))
    ELSE [a |-> iter_swap(a, i - 1, f), p |-> i - 1]

(* cudlb::partition *)
partition(a, f, l) == partition_loop(a, f, a[f], f + 1, l - 1)

(* cudlb::sort *)
RECURSIVE sort(_, _, _)
sort_halves(r, f, l) == sort(sort(r.a, f, r.p), r.p + 1, l)
sort(a, f, l) == IF f < l THEN sort_halves(partition(a, f, l), f, l) ELSE a

Sorted(a) ==
    /\ vec' = [vec EXCEPT !.elems = a]
    /\ last' = [NoCall EXCEPT !.op = "sort", !.before = vec.elems]
    /\ UNCHANGED <<heap, live, allocated, status, it, freed>>

Sort ==
    /\ status = "ok"
    /\ Sorted(sort(vec.elems, 1, Len(vec.elems) + 1))

Partitioned(r) ==
    /\ vec' = [vec EXCEPT !.elems = r.a]
    /\ it' = r.p
    /\ last' = [NoCall EXCEPT !.op = "partition", !.before = vec.elems]
    /\ UNCHANGED <<heap, live, allocated, status, freed>>

Partition ==
    /\ status = "ok"
    /\ vec.elems # <<>>
    /\ Partitioned(partition(vec.elems, 1, Len(vec.elems) + 1))

NextSort ==
    \/ \E val \in Keys : PushBack(val)
    \/ Sort
    \/ Partition

SpecSort == InitVector /\ [][NextSort]_vars

Count(a, x) == Cardinality({i \in 1..Len(a) : a[i] = x})
Permutation(a, b) == Len(a) = Len(b) /\ \A x \in Keys : Count(a, x) = Count(b, x)

(* C22: sort leaves the range in non-decreasing order as a permutation of  *)
(* what it held, and partition returns a position p with every element     *)
(* before p <= the pivot and every element after p > the pivot.            *)
C22_Sort ==
    /\ last.op = "sort" =>
          /\ NonDecreasing(vec.elems)
          /\ Permutation(vec.elems, last.before)
    /\ last.op = "partition" =>
          /\ \A i \in 1..(it - 1) : vec.elems[i] <= last.before[1]
          /\ \A i \in (it + 1)..Len(vec.elems) : vec.elems[i] > last.before[1]

(***************************************************************************)
(* Termination of the fixup loops.                                         *)
(***************************************************************************)

(* the red-black invariants on heap h: a search tree with consistent       *)
(* parent links, black nil and root, no red node with a red child, equal   *)
(* black counts on all paths                                               *)
RedBlack(h) ==
    /\ IsTree(h) /\ NonDecreasing(TreeKeys(h))
    /\ h.colour[h.end] = "black"
    /\ h.root # h.end => h.colour[h.root] = "black" /\ h.parent[h.root] = h.end
    /\ \A n \in Reach(h) :
          /\ h.left[n] # h.end => h.parent[h.left[n]] = n
          /\ h.right[n] # h.end => h.parent[h.right[n]] = n
          /\ h.colour[n] = "red" =>
                h.colour[h.left[n]] = "black" /\ h.colour[h.right[n]] = "black"
    /\ BlackCount(h, h.root, Depth) # -1

(* C23: every insert into a tree that satisfies the red-black invariants   *)
(* terminates: the insert_fixup loop stops when the cursor's parent is     *)
(* black or the cursor is the root, and never repeats a loop state.        *)
C23_InsertTerminates ==
    [][\A k \in Keys : (RedBlack(heap) /\ Insert(k)) => status' # "hang"]_vars

(* the runs of the body of the remove_fixup loop, lines 204-262: the       *)
(* heap h and the cursor x each run starts with                            *)
RECURSIVE remove_fixup_runs(_, _, _), remove_fixup_runs_next(_, _)
remove_fixup_runs(h, x, seen) ==
    IF x = NIL \/ h.colour[x] # "black" \/ <<Core(h), x>> \in seen THEN <<>>
    ELSE <<[h |-> Core(h), x |-> x]>>
         \o remove_fixup_runs_next(remove_fixup_body(h, x), seen \cup {<<Core(h), x>>})

remove_fixup_runs_next(r, seen) == remove_fixup_runs(r.h, r.x, seen)

(* remove, lines 177-180: the runs of the loop in the call remove_unlink   *)
(* leads to                                                                *)
remove_runs(r) ==
    IF r.h.hang \/ r.y_temp # "black" THEN <<>> ELSE remove_fixup_runs(r.h, r.x, {})

(* C24: the remove_fixup loop runs only while the cursor is black and is   *)
(* not the root: once the cursor is the root the loop exits without        *)
(* inspecting a sibling, the cursor is coloured black and remove returns.  *)
C24_FixupStopsAtRoot ==
    [][\A z \in Nodes :
          Remove(z) =>
             /\ status' # "hang"
             /\ \A i \in DOMAIN remove_runs(remove_unlink(Core(heap), z)) :
                   remove_runs(remove_unlink(Core(heap), z))[i].x
                      # remove_runs(remove_unlink(Core(heap), z))[i].h.root]_vars

(***************************************************************************)
(* Single iterations of the fixup loops.                                   *)
(***************************************************************************)

(* the runs of the body of the insert_fixup loop, lines 269-309: the heap  *)
(* h and the cursor z each run starts with                                 *)
RECURSIVE insert_fixup_runs(_, _, _), insert_fixup_runs_next(_, _)
insert_fixup_runs(h, z, seen) ==
    IF h.colour[h.parent[z]] # "red" \/ <<Core(h), z>> \in seen THEN <<>>
    ELSE <<[h |-> Core(h), z |-> z]>>
         \o insert_fixup_runs_next(insert_fixup_body(h, z), seen \cup {<<Core(h), z>>})

insert_fixup_runs_next(r, seen) == insert_fixup_runs(r.h, r.z, seen)

(* insert, lines 122-138: the runs of the loop in the call insert(z) *)
insert_runs_at(h, z, d) ==
    IF d.hang THEN <<>>
    ELSE insert_fixup_runs(insert_leaf(insert_link(h, z, d.y), z), z, {})

insert_runs(h, z) == insert_runs_at(h, z, insert_descend(h, z, h.root, NIL, {}))

(* lines 271-273 / 290-292: the uncle of the cursor z *)
uncle(h, z) ==
    IF h.parent[z] = h.left[h.parent[h.parent[z]]]
    THEN h.right[h.parent[h.parent[z]]]
    ELSE h.left[h.parent[h.parent[z]]]

(* the run r of the loop body changes nothing but the colours of the       *)
(* cursor's parent and uncle, to black, and of its grandparent, to red,    *)
(* and moves the cursor to the grandparent                                 *)
RecoloursOnly(r) ==
    /\ insert_fixup_body(r.h, r.z).z = r.h.parent[r.h.parent[r.z]]
    /\ insert_fixup_body(r.h, r.z).h.root = r.h.root
    /\ insert_fixup_body(r.h, r.z).h.parent = r.h.parent
    /\ insert_fixup_body(r.h, r.z).h.left = r.h.left
    /\ insert_fixup_body(r.h, r.z).h.right = r.h.right
    /\ \A a \in Addr :
          insert_fixup_body(r.h, r.z).h.colour[a] =
             IF a = r.h.parent[r.h.parent[r.z]] THEN "red"
             ELSE IF a \in {r.h.parent[r.z], uncle(r.h, r.z)} THEN "black"
             ELSE r.h.colour[a]

(* C25: an insert_fixup iteration in which the uncle is red only makes the *)
(* parent and the uncle black and the grandparent red and moves the cursor *)
(* to the grandparent; it performs no rotation and changes no parent, left *)
(* or right link, whichever child of the grandparent the parent is.        *)
C25_UncleRedRecoloursOnly ==
    [][\A k \in Keys :
          Insert(k) =>
             \A i \in DOMAIN insert_runs(construct(Core(heap), allocated + 1, k),
                                         allocated + 1) :
                LET r == insert_runs(construct(Core(heap), allocated + 1, k),
                                     allocated + 1)[i]
                IN r.h.colour[uncle(r.h, r.z)] = "red" => RecoloursOnly(r)]_vars

(* lines 206-208 / 234-236: the sibling of the cursor x *)
sibling(h, x) ==
    IF x = h.left[h.parent[x]] THEN h.right[h.parent[x]] ELSE h.left[h.parent[x]]

(* the run r of the loop body changes nothing but the colour of the        *)
(* cursor's sibling, to red, and moves the cursor to its parent            *)
SiblingRedOnly(r) ==
    /\ remove_fixup_body(r.h, r.x).x = r.h.parent[r.x]
    /\ Core(remove_fixup_body(r.h, r.x).h) =
          [r.h EXCEPT !.colour[sibling(r.h, r.x)] = "red"]

(* C26: a remove_fixup iteration in which the sibling and both of the      *)
(* sibling's children are black only makes the sibling red and moves the   *)
(* cursor to its parent; it performs no rotation and recolours no other    *)
(* node.                                                                   *)
C26_SiblingBlackRecoloursOnly ==
    [][\A z \in Nodes :
          Remove(z) =>
             \A i \in DOMAIN remove_runs(remove_unlink(Core(heap), z)) :
                LET r == remove_runs(remove_unlink(Core(heap), z))[i]
                IN (/\ r.h.colour[sibling(r.h, r.x)] = "black"
                    /\ r.h.colour[r.h.left[sibling(r.h, r.x)]] = "black"
                    /\ r.h.colour[r.h.right[sibling(r.h, r.x)]] = "black")
                   => SiblingRedOnly(r)]_vars

(* lines 234-258: the heap and the cursor of a run of the loop body whose  *)
(* cursor is a right child, before the rotation of line 259                *)
remove_fixup_before_rotate(s) ==
    [h |-> remove_fixup_tail_3(
               remove_fixup_tail_2(remove_fixup_tail_1(s.h, s.x, s.y), s.x),
               s.y, "left"),
     x |-> s.x]

remove_fixup_right_stage(h, x) ==
    remove_fixup_before_rotate(
        remove_fixup_cases(
            remove_fixup_touch(
                remove_fixup_red(h, x, "left", h.left[h.parent[x]]),
                "right", "left"),
            "right", "left"))

(* the rotation of line 259 turns the parent of the cursor to the right *)
RotatesRight(t, after) == Core(after) = Core(right_rotate(t.h, t.h.parent[t.x]))

(* C27: remove_fixup rotates the parent toward the cursor's side and the   *)
(* sibling away from it: when the cursor is a right child the parent is    *)
(* rotated right, in the sibling-red case and in the final case.           *)
C27_RotatesTowardCursor ==
    [][\A z \in Nodes :
          Remove(z) =>
             \A i \in DOMAIN remove_runs(remove_unlink(Core(heap), z)) :
                LET r == remove_runs(remove_unlink(Core(heap), z))[i]
                IN r.x # r.h.left[r.h.parent[r.x]] =>
                      /\ RotatesRight(remove_fixup_right_stage(r.h, r.x),
                                      remove_fixup_body(r.h, r.x).h)
                      /\ r.h.colour[r.h.left[r.h.parent[r.x]]] = "red" =>
                            RotatesRight(
                                [h |-> remove_fixup_red_colours(
                                           r.h, r.x, r.h.left[r.h.parent[r.x]]),
                                 x |-> r.x],
                                remove_fixup_red(r.h, r.x, "left",
                                                 r.h.left[r.h.parent[r.x]]).h)]_vars

(***************************************************************************)
(* Accesses through the nil link, empty() and begin().                     *)
(***************************************************************************)

(* C28: from a default-constructed tree or a tree constructed from one     *)
(* value, no insert call and no remove call on a node of the tree reads or *)
(* writes a colour, parent, left or right field through impl.end.          *)
C28_NoNilAccess ==
    [][/\ \A k \in Keys :
             Insert(k) =>
                ~insert(construct(Core(heap), allocated + 1, k), allocated + 1).nilacc
       /\ \A z \in Nodes : Remove(z) => ~remove(Core(heap), z).nilacc]_vars

(* C29: empty() is true exactly when no node is reachable from impl.root:  *)
(* false after the first insert into an empty tree and true again after    *)
(* the last node is removed.                                               *)
C29_EmptyIffNoNodes == empty(heap) <=> heap.root = NIL

(* C30: on a non-empty tree begin() is positioned at the node holding the  *)
(* minimum key, and incrementing from begin() until end() visits every     *)
(* node of the tree.                                                       *)
C30_BeginAtMinimum ==
    (status = "ok" /\ heap.root # NIL /\ IsTree(heap)) =>
       /\ heap.begin \in Reach(heap)
       /\ \A n \in Reach(heap) : ~less(heap.val[n], heap.val[heap.begin])
       /\ Range(Visit(heap, heap.begin, Depth)) = Reach(heap)

(***************************************************************************)
(* The element slots touched by device_vector::erase.  A position is the   *)
(* index of an element, 1 for begin(); the slot of index i has the address *)
(* begin + i - 1, and last_ = size() + 1 stands for end().                 *)
(***************************************************************************)

(* the addresses of the initialised range [begin(), end()) *)
Initialised(v) == v.begin..(v.end - 1)

(* erase(pos), lines 435-436: the slots read as *(pos + 1) *)
erase_reads(v, pos) == {v.begin + i : i \in pos..vector_size(v)}

(* erase(pos), lines 435-436: the slots written as *pos *)
erase_writes(v, pos) == {v.begin + i - 1 : i \in pos..vector_size(v)}

(* erase(first, last), lines 456-457: the slots read as *(first + range_size) *)
erase_range_reads(v, first, last_) ==
    IF first = last_ THEN {}
    ELSE {v.begin + i - 1 + (last_ - first) : i \in first..vector_size(v)}

(* erase(first, last), lines 456-457: the slots written as *first *)
erase_range_writes(v, first, last_) ==
    IF first = last_ THEN {}
    ELSE {v.begin + i - 1 : i \in first..vector_size(v)}

(* device_vector::erase(first, last): every element from first on takes    *)
(* the value range_size slots behind it, then range_size elements at the   *)
(* end are destroyed                                                       *)
erase_range(v, first, last_) ==
    [v EXCEPT !.elems = [i \in 1..(Len(@) - (last_ - first)) |->
                            IF i < first THEN @[i] ELSE @[i + (last_ - first)]],
              !.end = @ - (last_ - first)]

(* a read behind the allocated space, at or after base.space, may fault *)
EraseRange(first, last_) ==
    /\ status = "ok"
    /\ first \in 1..(vector_size(vec) + 1)
    /\ last_ \in first..(vector_size(vec) + 1)
    /\ \E o \in {"ok"} \cup (IF \E a \in erase_range_reads(vec, first, last_) : a >= vec.space
                             THEN {"fault"} ELSE {}) :
          /\ status' = o
          /\ vec' = IF o = "ok" THEN erase_range(vec, first, last_) ELSE vec
          /\ last' = IF o = "ok" THEN [NoCall EXCEPT !.op = "erase"] ELSE last
    /\ UNCHANGED <<heap, live, allocated, it, freed>>

NextErase ==
    \/ \E val \in Keys : PushBack(val)
    \/ \E pos \in 1..MaxLen : Erase(pos)
    \/ \E first \in 1..(MaxLen + 1), last_ \in 1..(MaxLen + 1) : EraseRange(first, last_)

SpecErase == InitVector /\ [][NextErase]_vars

(* C31: erase(pos) and erase(first, last) read and write only element      *)
(* slots of the range [begin(), end()) as it was on entry: the shifting    *)
(* loops never read the slot at end() or behind it, for every vector and   *)
(* every valid position or sub-range.                                      *)
C31_EraseInsideRange ==
    [][/\ \A pos \in 1..MaxLen :
             Erase(pos) =>
                erase_reads(vec, pos) \cup erase_writes(vec, pos) \subseteq Initialised(vec)
       /\ \A first \in 1..(MaxLen + 1), last_ \in 1..(MaxLen + 1) :
             EraseRange(first, last_) =>
                erase_range_reads(vec, first, last_)
                   \cup erase_range_writes(vec, first, last_) \subseteq Initialised(vec)]_vars
====
